---- MODULE Spec2Model ----
(***************************************************************************)
(* A model of django-datalog: the fact store, the global rule registry     *)
(* with its scoped contexts, the forward-chaining rule engine and the      *)
(* query pipeline (constraint propagation, the automatic ORM conversion    *)
(* that is tried first, and the recursive conjunctive solver).             *)
(*                                                                         *)
(* Entities are primary keys.  A fact is a record                          *)
(* [type, s, o] of a relation name and two keys.  A pattern is a record    *)
(* [type, s, o] whose s and o are terms: a constant key or a Var with a    *)
(* name and a where.  A where is a sequence of lookups that Django's Q     *)
(* AND-combines (<<>> stands for None); a lookup is [f, ref]: the entity   *)
(* field f, compared with Var(ref) when ref is not "".                     *)
(***************************************************************************)
EXTENDS Integers, Sequences, FiniteSets, TLC

VARIABLES store, _rules, scopes, last, loop

vars == <<store, _rules, scopes, last, loop>>

-----------------------------------------------------------------------------
(* Bounds *)

MaxStore == 2

MaxRules == 2

MaxDepth == 2

ChainLen == 101

(* Program constant: the pass cap of apply_rules *)
max_iterations == 100


-----------------------------------------------------------------------------
(* Fact types.  A type declared with inferred=True has _is_inferred set    *)
(* and no storage model; every other type has a storage model.             *)

StorableTypes == {"ParentOf", "WorksOn"}

InferredTypes == {"GrandparentOf", "HasAccess"}

FactTypes == StorableTypes \cup InferredTypes

_is_inferred(t) == t \in InferredTypes

_django_model(t) == IF _is_inferred(t) THEN "None" ELSE t

(* The entity tables: the keys of the entities and the two fields that     *)
(* where clauses look at.  Entity 1 is a minor of company 1, entity 2 an   *)
(* adult of company 2.                                                     *)
Ent == {1, 2}

age(e) == IF e = 1 THEN 10 ELSE 18

company(e) == IF e = 1 THEN 1 ELSE 2

is_manager(e) == e = 2

-----------------------------------------------------------------------------
(* Terms, patterns, facts *)

None == <<>>

Const(e) == [k |-> "const", v |-> e, name |-> "", where |-> None]

Var(n, w) == [k |-> "var", v |-> 0, name |-> n, where |-> w]

isVar(t) == t.k = "var"

Pat(t, s, o) == [type |-> t, s |-> s, o |-> o]

Fact(t, s, o) == [type |-> t, s |-> s, o |-> o]

Adult == <<[f |-> "age__gte18", ref |-> ""]>>

Manager == <<[f |-> "is_manager", ref |-> ""]>>

SameCompany(n) == <<[f |-> "company", ref |-> n]>>

(* Sequence helpers *)
SeqToSet(q) == {q[i] : i \in 1..Len(q)}

InSeq(x, q) == \E i \in 1..Len(q) : q[i] = x

IsPrefix(p, q) == Len(p) <= Len(q) /\ SubSeq(q, 1, Len(p)) = p

RECURSIVE Dedup(_, _)
Dedup(q, acc) ==
  IF q = <<>> THEN acc
  ELSE Dedup(Tail(q), IF InSeq(Head(q), acc) THEN acc ELSE Append(acc, Head(q)))

(* The concatenation of the sequences of a sequence *)
RECURSIVE Flatten(_)
Flatten(qq) ==
  IF qq = <<>> THEN <<>>
  ELSE IF Len(qq) = 1 THEN qq[1]
  ELSE LET half == Len(qq) \div 2
       IN  Flatten(SubSeq(qq, 1, half)) \o Flatten(SubSeq(qq, half + 1, Len(qq)))

(* Binding sets are functions from variable names to keys. *)
EmptyB == [n \in {} |-> 0]

Bind(b, n, v) == [m \in DOMAIN b \cup {n} |-> IF m = n THEN v ELSE b[m]]

-----------------------------------------------------------------------------
(* variables.py *)

has_variable_references(w) == \E i \in 1..Len(w) : w[i].ref # ""

(* query.py: _check_q_constraint_with_bindings, for an entity that exists *)
LookupHolds(e, l, b) ==
  IF l.f = "age__gte18" THEN age(e) >= 18
  ELSE IF l.f = "is_manager" THEN is_manager(e)
  ELSE IF l.ref = "" THEN FALSE
  ELSE company(e) = b[l.ref]

_check_q_constraint_with_bindings(e, w, b) ==
  IF has_variable_references(w)
       /\ \E i \in 1..Len(w) : w[i].ref # "" /\ w[i].ref \notin DOMAIN b
  THEN TRUE
  ELSE \A i \in 1..Len(w) : LookupHolds(e, w[i], b)

-----------------------------------------------------------------------------
(* query.py: the in-memory unifier.  The result is [ok, b]: b is the       *)
(* substitution when ok, and None was returned when not ok.                *)

Fail == [ok |-> FALSE, b |-> EmptyB]

(* The unifier without the evaluation of where clauses *)
_unify_fact_pattern_unchecked(pattern, concrete_fact, existing_bindings, skip_cross_var_constraints) ==
  LET ps == pattern.s
      po == pattern.o
      sub1 == IF isVar(ps) THEN Bind(EmptyB, ps.name, concrete_fact.s) ELSE EmptyB
  IN  IF ~isVar(ps) /\ ps.v # concrete_fact.s THEN Fail
      ELSE IF ~isVar(po) /\ po.v # concrete_fact.o THEN Fail
      ELSE IF isVar(po) /\ po.name \in DOMAIN sub1 /\ sub1[po.name] # concrete_fact.o THEN Fail
      ELSE [ok |-> TRUE,
            b |-> IF isVar(po) THEN Bind(sub1, po.name, concrete_fact.o) ELSE sub1]

_unify_fact_pattern(pattern, concrete_fact, existing_bindings, skip_cross_var_constraints) ==
  LET ps == pattern.s
      po == pattern.o
      sOk == IF isVar(ps)
             THEN \/ ps.where = None
                  \/ skip_cross_var_constraints /\ has_variable_references(ps.where)
                  \/ _check_q_constraint_with_bindings(concrete_fact.s, ps.where,
                                                       existing_bindings)
             ELSE ps.v = concrete_fact.s
      sub1 == IF isVar(ps) THEN Bind(EmptyB, ps.name, concrete_fact.s) ELSE EmptyB
      combined == [n \in DOMAIN existing_bindings \cup DOMAIN sub1 |->
                     IF n \in DOMAIN sub1 THEN sub1[n] ELSE existing_bindings[n]]
      oOk == IF isVar(po)
             THEN /\ \/ po.where = None
                     \/ skip_cross_var_constraints /\ has_variable_references(po.where)
                     \/ _check_q_constraint_with_bindings(concrete_fact.o, po.where, combined)
                  /\ ~(po.name \in DOMAIN sub1 /\ sub1[po.name] # concrete_fact.o)
             ELSE po.v = concrete_fact.o
  IN  IF ~sOk THEN Fail
      ELSE IF ~oOk THEN Fail
      ELSE [ok |-> TRUE,
            b |-> IF isVar(po) THEN Bind(sub1, po.name, concrete_fact.o) ELSE sub1]

(* the substitutions of the results that are not None, in order *)
Successes(results) ==
  LET ok == SelectSeq(results, LAMBDA u : u.ok)
  IN  [i \in 1..Len(ok) |-> ok[i].b]

_query_against_facts(pattern, facts, existing_bindings, skip) ==
  Successes([i \in 1..Len(facts) |->
               IF facts[i].type = pattern.type
               THEN _unify_fact_pattern(pattern, facts[i], existing_bindings, skip)
               ELSE Fail])

(* [ok, b]: not ok stands for None (a conflict) *)
_unify_bindings(existing, new) ==
  IF \E n \in DOMAIN new \cap DOMAIN existing : existing[n] # new[n]
  THEN Fail
  ELSE [ok |-> TRUE,
        b |-> [n \in DOMAIN existing \cup DOMAIN new |->
                 IF n \in DOMAIN existing THEN existing[n] ELSE new[n]]]

-----------------------------------------------------------------------------
(* query.py: loading the stored rows of a pattern.  rows is the sequence   *)
(* of stored facts in the order in which the database returns them.        *)

(* _fact_to_django_query: the filter a term puts on its column *)
TermFilter(term, key) ==
  IF ~isVar(term) THEN key = term.v
  ELSE IF term.where # None /\ ~has_variable_references(term.where)
       THEN \A i \in 1..Len(term.where) : LookupHolds(key, term.where[i], EmptyB)
       ELSE TRUE

_fact_to_django_query(pattern, f) ==
  TermFilter(pattern.s, f.s) /\ TermFilter(pattern.o, f.o)

FilterRows(pattern, rows) ==
  SelectSeq(rows, LAMBDA f : f.type = pattern.type /\ _fact_to_django_query(pattern, f))

_load_stored_facts_for_pattern(pattern, rows) ==
  IF _is_inferred(pattern.type) THEN <<>> ELSE FilterRows(pattern, rows)

-----------------------------------------------------------------------------
(* rules.py: the rule engine.  A rule is [head, body]; body is the list of *)
(* the conditions passed to rule().  A condition is a fact pattern         *)
(* (k = "fact"), a list of alternatives (k = "list", what A | B builds) or *)
(* a tuple of patterns (k = "tuple", what A & B builds); alts holds the    *)
(* alternatives, each a sequence of patterns.                              *)

NoPat == Pat("", Const(0), Const(0))

CFact(p) == [k |-> "fact", p |-> p, alts |-> <<>>]

CList(alts) == [k |-> "list", p |-> NoPat, alts |-> alts]

CTuple(ps) == [k |-> "tuple", p |-> NoPat, alts |-> <<ps>>]

Rule(head, body) == [head |-> head, body |-> body]

_unify_facts(pattern_fact, concrete_fact) ==
  LET ps == pattern_fact.s
      po == pattern_fact.o
      b1 == IF isVar(ps) THEN Bind(EmptyB, ps.name, concrete_fact.s) ELSE EmptyB
  IN  IF ~isVar(ps) /\ ps.v # concrete_fact.s THEN Fail
      ELSE IF isVar(po)
           THEN IF po.name \in DOMAIN b1 /\ b1[po.name] # concrete_fact.o THEN Fail
                ELSE [ok |-> TRUE, b |-> Bind(b1, po.name, concrete_fact.o)]
           ELSE IF po.v # concrete_fact.o THEN Fail
                ELSE [ok |-> TRUE, b |-> b1]

_merge_bindings(binding1, binding2) ==
  IF \E n \in DOMAIN binding2 \cap DOMAIN binding1 : binding1[n] # binding2[n]
  THEN Fail
  ELSE [ok |-> TRUE,
        b |-> [n \in DOMAIN binding1 \cup DOMAIN binding2 |->
                 IF n \in DOMAIN binding1 THEN binding1[n] ELSE binding2[n]]]

(* A fact is never of the type of a list or a tuple: such a condition   *)
(* matches nothing.                                                     *)
_find_bindings_for_condition(condition, known_facts) ==
  Successes([i \in 1..Len(known_facts) |->
               IF condition.k = "fact" /\ known_facts[i].type = condition.p.type
               THEN _unify_facts(condition.p, known_facts[i])
               ELSE Fail])

MergeAll(binding, extended) ==
  Successes([i \in 1..Len(extended) |-> _merge_bindings(binding, extended[i])])

RECURSIVE _find_all_bindings(_, _)
_find_all_bindings(conditions, known_facts) ==
  IF conditions = <<>> THEN <<EmptyB>>
  ELSE LET first_bindings == _find_bindings_for_condition(Head(conditions), known_facts)
           remaining == Tail(conditions)
           extended == IF remaining = <<>> \/ first_bindings = <<>> THEN <<>>
                       ELSE _find_all_bindings(remaining, known_facts)
           Extend(binding) == IF remaining # <<>> THEN MergeAll(binding, extended)
                              ELSE <<binding>>
       IN  Flatten([i \in 1..Len(first_bindings) |-> Extend(first_bindings[i])])

(* [ok, f]: not ok stands for None (an unbound variable) *)
_instantiate_fact(pattern_fact, bindings) ==
  LET ps == pattern_fact.s
      po == pattern_fact.o
  IN  IF isVar(ps) /\ ps.name \notin DOMAIN bindings THEN [ok |-> FALSE, f |-> Fact("", 0, 0)]
      ELSE IF isVar(po) /\ po.name \notin DOMAIN bindings
           THEN [ok |-> FALSE, f |-> Fact("", 0, 0)]
           ELSE [ok |-> TRUE,
                 f |-> Fact(pattern_fact.type,
                            IF isVar(ps) THEN bindings[ps.name] ELSE ps.v,
                            IF isVar(po) THEN bindings[po.name] ELSE po.v)]

(* The loop over bindings_list: an instance is appended to new_facts when *)
(* it is not None, not in known_facts and not in new_facts, that is, not *)
(* the instance of an earlier binding set.                               *)
Instantiate(head, bindings_list, known_facts) ==
  LET inst == [j \in 1..Len(bindings_list) |-> _instantiate_fact(head, bindings_list[j])]
      Fresh(j) == /\ inst[j].ok
                  /\ ~InSeq(inst[j].f, known_facts)
                  /\ ~\E k \in 1..(j - 1) : inst[k].ok /\ inst[k].f = inst[j].f
      kept == SelectSeq([j \in 1..Len(bindings_list) |-> j], Fresh)
  IN  [j \in 1..Len(kept) |-> inst[kept[j]].f]

_apply_single_rule(rule_obj, known_facts) ==
  Instantiate(rule_obj.head, _find_all_bindings(rule_obj.body, known_facts), known_facts)

(* One pass of the while loop of apply_rules over the rules: [facts, changed] *)
RECURSIVE RulePass(_, _, _)
RulePass(rules, all_facts, changed) ==
  IF rules = <<>> THEN [facts |-> all_facts, changed |-> changed]
  ELSE LET new_facts == _apply_single_rule(Head(rules), all_facts)
       IN  RulePass(Tail(rules), all_facts \o new_facts, changed \/ new_facts # <<>>)

(* The loop condition without the cap *)
LoopConditionNoCap(changed, iterations) == changed

(* while changed and iterations < max_iterations *)
LoopCondition(changed, iterations) == changed /\ iterations < max_iterations

RECURSIVE RuleLoop(_, _, _, _)
RuleLoop(rules, all_facts, changed, iterations) ==
  IF LoopCondition(changed, iterations)
  THEN LET r == RulePass(rules, all_facts, FALSE)
       IN  RuleLoop(rules, r.facts, r.changed, iterations + 1)
  ELSE all_facts

apply_rules(rules, base_facts) == RuleLoop(rules, base_facts, TRUE, 0)

(* The fixpoint over the rules handed over, as apply_rules runs it over  *)
(* the registry.                                                         *)
apply_targeted_rules(rules, base_facts) == apply_rules(rules, base_facts)

-----------------------------------------------------------------------------
(* optimizer.py: constraint propagation.  Q & Q appends the lookups.       *)

PatVars(pattern) ==
  (IF isVar(pattern.s) THEN <<pattern.s>> ELSE <<>>)
    \o (IF isVar(pattern.o) THEN <<pattern.o>> ELSE <<>>)

_extract_variables(fact_patterns) == Flatten([i \in 1..Len(fact_patterns) |-> PatVars(fact_patterns[i])])

RECURSIVE CollectFor(_, _)
CollectFor(name, variables) ==
  IF variables = <<>> THEN <<>>
  ELSE LET v == Head(variables)
       IN  (IF v.name = name /\ v.where # None /\ ~has_variable_references(v.where)
            THEN <<v.where>> ELSE <<>>) \o CollectFor(name, Tail(variables))

_collect_constraints_by_variable(fact_patterns) ==
  LET variables == _extract_variables(fact_patterns)
      names == {variables[i].name : i \in 1..Len(variables)}
      constrained == {n \in names : CollectFor(n, variables) # <<>>}
  IN  [n \in constrained |-> CollectFor(n, variables)]

RECURSIVE AndAll(_)
AndAll(constraints) ==
  IF constraints = <<>> THEN <<>> ELSE Head(constraints) \o AndAll(Tail(constraints))

_merge_variable_constraints(constraints_by_var) ==
  [n \in DOMAIN constraints_by_var |-> AndAll(constraints_by_var[n])]

(* _update_variable_constraint without the rewrite: the field as given *)
_update_variable_constraint_as_given(field, merged_constraints) == field

_update_variable_constraint(field, merged_constraints) ==
  IF isVar(field) /\ field.name \in DOMAIN merged_constraints
  THEN Var(field.name, merged_constraints[field.name])
  ELSE field

_update_pattern_constraints(pattern, merged_constraints) ==
  Pat(pattern.type, _update_variable_constraint(pattern.s, merged_constraints),
      _update_variable_constraint(pattern.o, merged_constraints))

propagate_constraints(fact_patterns) ==
  LET merged == _merge_variable_constraints(_collect_constraints_by_variable(fact_patterns))
  IN  [i \in 1..Len(fact_patterns) |-> _update_pattern_constraints(fact_patterns[i], merged)]

optimize_query(fact_patterns) == propagate_constraints(fact_patterns)

-----------------------------------------------------------------------------
(* query.py: the candidate facts of a pattern.  A result [err, facts] with *)
(* err set stands for the AttributeError that reading .subject of a list   *)
(* or a tuple raises.                                                      *)

_variable_in_pattern(var_name, pattern) ==
  \/ isVar(pattern.s) /\ pattern.s.name = var_name
  \/ isVar(pattern.o) /\ pattern.o.name = var_name

(* The hidden names are fresh: hidden_ and eight hex digits of a uuid4. *)
_create_targeted_condition(condition, target_pattern) ==
  LET c == condition.p
  IN  Pat(c.type,
          IF isVar(c.s) /\ ~_variable_in_pattern(c.s.name, target_pattern)
          THEN Var("hidden_s", None) ELSE c.s,
          IF isVar(c.o) /\ ~_variable_in_pattern(c.o.name, target_pattern)
          THEN Var("hidden_o", None) ELSE c.o)

AllBodies(rules) == Flatten([i \in 1..Len(rules) |-> rules[i].body])

_build_targeted_fact_base_for_rules(rules, target_pattern, rows) ==
  LET conds == AllBodies(rules)
      Load(c) == _load_stored_facts_for_pattern(_create_targeted_condition(c, target_pattern),
                                                rows)
  IN  IF \E i \in 1..Len(conds) : conds[i].k # "fact"
      THEN [err |-> TRUE, facts |-> <<>>]
      ELSE [err |-> FALSE, facts |-> Dedup(Flatten([i \in 1..Len(conds) |-> Load(conds[i])]), <<>>)]

_apply_rules_with_hidden_variables(rules, target_pattern, rows) ==
  LET base == _build_targeted_fact_base_for_rules(rules, target_pattern, rows)
  IN  IF base.err THEN base
      ELSE [err |-> FALSE,
            facts |-> SelectSeq(apply_targeted_rules(rules, base.facts),
                                LAMBDA f : f.type = target_pattern.type)]

_get_facts_for_pattern(pattern, registry, rows) ==
  LET stored_facts == _load_stored_facts_for_pattern(pattern, rows)
      relevant_rules == SelectSeq(registry, LAMBDA r : r.head.type = pattern.type)
      inferred == _apply_rules_with_hidden_variables(relevant_rules, pattern, rows)
  IN  IF relevant_rules = <<>> THEN [err |-> FALSE, facts |-> stored_facts]
      ELSE IF inferred.err THEN inferred
      ELSE [err |-> FALSE, facts |-> stored_facts \o inferred.facts]

-----------------------------------------------------------------------------
(* query_analyzer.py and query.py: the automatic ORM conversion.  The      *)
(* storage model of a fact type has the columns id (a uuid), subject and   *)
(* object, so a lookup on an entity field, filtered on a storage queryset, *)
(* raises FieldError, and a comparison of a key with OuterRef('pk') never  *)
(* holds.                                                                  *)

NCons(pattern) ==
  (IF isVar(pattern.s) /\ pattern.s.where # None THEN 1 ELSE 0)
    + (IF isVar(pattern.o) /\ pattern.o.where # None THEN 1 ELSE 0)

(* _parse_facts: the conditions that have a storage model *)
_parse_facts(conditions) ==
  SelectSeq(conditions, LAMBDA c : _django_model(c.type) # "None")

RECURSIVE SumSeq(_)
SumSeq(q) == IF q = <<>> THEN 0 ELSE Head(q) + SumSeq(Tail(q))

(* twice the score of _choose_primary_model: count - 0.5 * constraints *)
Score2(model, nodes) ==
  LET mine == SelectSeq(nodes, LAMBDA c : c.type = model)
  IN  2 * Len(mine) - SumSeq([i \in 1..Len(mine) |-> NCons(mine[i])])

(* the first model, in the order in which the nodes name them, whose score *)
(* no other exceeds; nodes is not empty                                    *)
_choose_primary_model(nodes) ==
  LET best == CHOOSE i \in 1..Len(nodes) :
                /\ \A j \in 1..Len(nodes) : Score2(nodes[j].type, nodes) <= Score2(nodes[i].type, nodes)
                /\ \A j \in 1..(i - 1) : Score2(nodes[j].type, nodes) < Score2(nodes[i].type, nodes)
  IN  nodes[best].type

PrimaryFact(nodes, primary) ==
  nodes[CHOOSE i \in 1..Len(nodes) :
          nodes[i].type = primary /\ \A j \in 1..(i - 1) : nodes[j].type # primary]

Wheres(pattern) ==
  (IF isVar(pattern.s) /\ pattern.s.where # None THEN <<pattern.s.where>> ELSE <<>>)
    \o (IF isVar(pattern.o) /\ pattern.o.where # None THEN <<pattern.o.where>> ELSE <<>>)

HasPlainLookup(w) == \E i \in 1..Len(w) : w[i].ref = ""

(* filter() with a lookup on an entity field raises FieldError *)
RaisesFieldError(nodes, primary) ==
  \/ \E w \in SeqToSet(Wheres(PrimaryFact(nodes, primary))) : ~has_variable_references(w)
  \/ \E i \in 1..Len(nodes) :
       /\ nodes[i].type # primary
       /\ \E w \in SeqToSet(Wheres(nodes[i])) : HasPlainLookup(w)

_map_variable_to_outer_ref(var_name, nodes, primary) ==
  LET prim == SelectSeq(nodes, LAMBDA c : c.type = primary /\ _variable_in_pattern(var_name, c))
  IN  IF prim # <<>>
      THEN IF isVar(prim[1].s) /\ prim[1].s.name = var_name THEN "subject" ELSE "object"
      ELSE IF var_name \in {"emp", "employee"} THEN "subject"
      ELSE IF var_name \in {"company", "project", "department", "dept"} THEN "object"
      ELSE "subject"

OuterRef(field, row) == IF field = "subject" THEN row.s ELSE row.o

(* _recursive_resolve_q: every lookup becomes object__<field> = OuterRef *)
ResolvedHolds(w, x, row, nodes, primary) ==
  \A i \in 1..Len(w) :
    w[i].ref # "" =>
      company(x.o) = OuterRef(_map_variable_to_outer_ref(w[i].ref, nodes, primary), row)

(* the EXISTS subquery of one node of another model, for one primary row *)
ExistsFor(node, row, rows, nodes, primary) ==
  \E k \in 1..Len(rows) :
    LET x == rows[k]
    IN  /\ x.type = node.type
        /\ IF isVar(node.s) THEN x.s = row.s
           ELSE IF isVar(node.o) THEN FALSE
           ELSE TRUE
        /\ \A w \in SeqToSet(Wheres(node)) : ResolvedHolds(w, x, row, nodes, primary)

_apply_comprehensive_exists(rows, nodes, primary) ==
  SelectSeq(rows, LAMBDA row :
    /\ row.type = primary
    /\ \A i \in 1..Len(nodes) :
         nodes[i].type # primary => ExistsFor(nodes[i], row, rows, nodes, primary))

(* _add_result_annotations: <model>_object_id, the object of the first row *)
(* of the model with the subject of the primary row; 0 stands for None     *)
_add_result_annotations(model, row, rows) ==
  LET same == SelectSeq(rows, LAMBDA x : x.type = model /\ x.s = row.s)
  IN  IF same = <<>> THEN 0 ELSE same[1].o

RECURSIVE Annotated(_, _, _, _, _)
Annotated(conditions, result, row, rows, primary) ==
  IF conditions = <<>> THEN result
  ELSE LET c == Head(conditions)
           a == _add_result_annotations(c.type, row, rows)
       IN  Annotated(Tail(conditions),
                     IF c.type # primary /\ isVar(c.o) /\ c.o.name \notin DOMAIN result /\ a # 0
                     THEN Bind(result, c.o.name, a) ELSE result,
                     row, rows, primary)

ExpectedVars(conditions) ==
  LET vs == _extract_variables(conditions)
  IN  {vs[i].name : i \in 1..Len(vs)}

(* the binding set of one primary row, <<>> when a variable stays unbound *)
RowResult(row, conditions, rows, primary) ==
  LET first == PrimaryFact(conditions, primary)
      r1 == IF isVar(first.s) THEN Bind(EmptyB, first.s.name, row.s) ELSE EmptyB
      r2 == IF isVar(first.o) THEN Bind(r1, first.o.name, row.o) ELSE r1
      result == Annotated(conditions, r2, row, rows, primary)
  IN  IF DOMAIN result = ExpectedVars(conditions) THEN <<result>> ELSE <<>>

_execute_advanced_orm_query(queryset, conditions, rows, primary) ==
  Flatten([i \in 1..Len(queryset) |-> RowResult(queryset[i], conditions, rows, primary)])

(* [raised, out]: raised stands for the NotImplementedError that sends the *)
(* caller to the solver; nothing was yielded before it                     *)
_try_automatic_orm_conversion(conditions, rows) ==
  LET nodes == _parse_facts(conditions)
      primary == _choose_primary_model(nodes)
      queryset == _apply_comprehensive_exists(rows, nodes, primary)
      Raised == [raised |-> TRUE, out |-> <<>>]
  IN  IF nodes = <<>> THEN Raised
      ELSE IF RaisesFieldError(nodes, primary) THEN Raised
      ELSE IF queryset # <<>> /\ Len(nodes) # Len(conditions) THEN Raised
      ELSE [raised |-> FALSE,
            out |-> _execute_advanced_orm_query(queryset, conditions, rows, primary)]

-----------------------------------------------------------------------------
(* query.py: the conjunctive solver and query().  A result is [err, out]:  *)
(* out is the sequence of the binding sets yielded, err says that the      *)
(* generator raised.                                                       *)

CrossOk(term, bindings) ==
  (isVar(term) /\ term.where # None /\ has_variable_references(term.where)
     /\ term.name \in DOMAIN bindings)
    => _check_q_constraint_with_bindings(bindings[term.name], term.where, bindings)

_validate_cross_variable_constraints(conditions, bindings) ==
  \A i \in 1..Len(conditions) :
    CrossOk(conditions[i].s, bindings) /\ CrossOk(conditions[i].o, bindings)

RECURSIVE _satisfy_conjunction_with_targeted_facts(_, _, _, _, _)
RECURSIVE SolveEach(_, _, _, _, _, _)

_satisfy_conjunction_with_targeted_facts(conditions, bindings, original_conditions, registry, rows) ==
  LET orm == IF bindings = EmptyB
             THEN _try_automatic_orm_conversion(original_conditions, rows)
             ELSE [raised |-> TRUE, out |-> <<>>]
  IN  IF ~orm.raised THEN [err |-> FALSE, out |-> orm.out]
      ELSE IF conditions = <<>>
      THEN [err |-> FALSE,
            out |-> IF _validate_cross_variable_constraints(original_conditions, bindings)
                    THEN <<bindings>> ELSE <<>>]
      ELSE LET condition == Head(conditions)
               relevant_facts == _get_facts_for_pattern(condition, registry, rows)
           IN  IF relevant_facts.err THEN [err |-> TRUE, out |-> <<>>]
               ELSE SolveEach(_query_against_facts(condition, relevant_facts.facts,
                                                   bindings, TRUE),
                              Tail(conditions), bindings, original_conditions, registry, rows)

SolveEach(results, remaining, bindings, original_conditions, registry, rows) ==
  IF results = <<>> THEN [err |-> FALSE, out |-> <<>>]
  ELSE LET new_bindings == _unify_bindings(bindings, Head(results))
           here == IF new_bindings.ok
                   THEN _satisfy_conjunction_with_targeted_facts(
                          remaining, new_bindings.b, original_conditions, registry, rows)
                   ELSE [err |-> FALSE, out |-> <<>>]
           rest == SolveEach(Tail(results), remaining, bindings, original_conditions,
                             registry, rows)
       IN  IF here.err THEN here
           ELSE [err |-> rest.err, out |-> here.out \o rest.out]

(* query with hydrate=False: the key-only binding sets *)
query(fact_patterns, registry, rows) ==
  LET optimized_patterns == optimize_query(fact_patterns)
  IN  _satisfy_conjunction_with_targeted_facts(optimized_patterns, EmptyB,
                                               optimized_patterns, registry, rows)

(* The solver alone: what _satisfy_conjunction_with_targeted_facts yields   *)
(* when the conversion raises NotImplementedError wherever it is tried.    *)
(* The conversion is tried only when the bindings are empty (`if not       *)
(* bindings`), so the solver starts from the binding of a name that no     *)
(* pattern uses, "", and the name is taken off the binding sets yielded.   *)
WithoutFallback(res) ==
  [err |-> res.err,
   out |-> [i \in 1..Len(res.out) |->
              [n \in DOMAIN res.out[i] \ {""} |-> res.out[i][n]]]]

solver(conditions, registry, rows) ==
  WithoutFallback(_satisfy_conjunction_with_targeted_facts(conditions, Bind(EmptyB, "", 0),
                                                           conditions, registry, rows))

(* query when every access to the store raises (the database is down).   *)
(* The conversion's queryset raises when it is iterated, inside the try   *)
(* of _try_automatic_orm_conversion, whose NotImplementedError sends the  *)
(* caller to the solver; there _load_stored_facts_for_pattern catches the *)
(* error and returns [], which is what it returns for a table without     *)
(* rows.                                                                  *)
query_on_failing_store(fact_patterns, registry) ==
  solver(optimize_query(fact_patterns), registry, <<>>)

-----------------------------------------------------------------------------
(* query.py: hydration.  A value of a hydrated binding set is [model, pk]: *)
(* the entity of the model with that key, or the raw key when model is     *)
(* "None".  Every entity table holds the keys of Ent.                      *)

Entity(model, pk) == [model |-> model, pk |-> pk]

RawKey(pk) == [model |-> "None", pk |-> pk]

(* The model that the annotation of a field of a fact type names *)
_extract_model_type_from_annotation(t, field_name) ==
  IF t \in {"ParentOf", "GrandparentOf"} THEN "Person"
  ELSE IF field_name = "subject" THEN "Employee"
  ELSE "Project"

(* in_bulk that takes every key for the key of an entity *)
in_bulk_every_key(model, pk_list) == pk_list

(* model_type.objects.in_bulk(pk_list): the keys that have an entity *)
in_bulk(model, pk_list) == pk_list \cap Ent

(* the variables of the patterns in the order of the first pass: *)
(* [name, model], the subject of a pattern before its object     *)
FieldVars(fact_pattern) ==
  (IF isVar(fact_pattern.s)
   THEN <<[name |-> fact_pattern.s.name,
           model |-> _extract_model_type_from_annotation(fact_pattern.type, "subject")]>>
   ELSE <<>>)
    \o (IF isVar(fact_pattern.o)
        THEN <<[name |-> fact_pattern.o.name,
                model |-> _extract_model_type_from_annotation(fact_pattern.type, "object")]>>
        ELSE <<>>)

RECURSIVE FirstModels(_, _)
FirstModels(field_vars, var_to_model_type) ==
  IF field_vars = <<>> THEN var_to_model_type
  ELSE LET v == Head(field_vars)
       IN  FirstModels(Tail(field_vars),
                       IF v.model # "None" /\ v.name \notin DOMAIN var_to_model_type
                       THEN [n \in DOMAIN var_to_model_type \cup {v.name} |->
                               IF n = v.name THEN v.model ELSE var_to_model_type[n]]
                       ELSE var_to_model_type)

(* [out, lookups]: the binding sets yielded and the in_bulk calls made *)
_hydrate_results(pk_results, fact_patterns) ==
  LET var_to_model_type ==
        FirstModels(Flatten([i \in 1..Len(fact_patterns) |-> FieldVars(fact_patterns[i])]),
                    [n \in {} |-> ""])
      pks_to_hydrate ==
        [n \in DOMAIN var_to_model_type |->
           {pk_results[i][n] : i \in {j \in 1..Len(pk_results) : n \in DOMAIN pk_results[j]}}]
      model_cache ==
        [n \in DOMAIN var_to_model_type |-> in_bulk(var_to_model_type[n], pks_to_hydrate[n])]
      Hydrated(result) ==
        [n \in DOMAIN result |->
           IF n \in DOMAIN model_cache /\ result[n] \in model_cache[n]
           THEN Entity(var_to_model_type[n], result[n])
           ELSE RawKey(result[n])]
  IN  IF pk_results = <<>> THEN [out |-> <<>>, lookups |-> {}]
      ELSE [out |-> [i \in 1..Len(pk_results) |-> Hydrated(pk_results[i])],
            lookups |-> {[model |-> var_to_model_type[n], pks |-> pks_to_hydrate[n]] :
                           n \in DOMAIN var_to_model_type}]

-----------------------------------------------------------------------------
(* State.                                                                  *)
(*   store   the rows of the fact tables, a set of facts (unique_together) *)
(*   _rules  the global rule registry, a sequence of rules                 *)
(*   scopes  the active rule_context scopes, innermost last: each holds    *)
(*           original_rules, the copy of the registry it saved on entry    *)
(*   last    the last call and its outcome: q its arguments (the patterns  *)
(*           of a query, the facts of store_facts and retract_facts, the   *)
(*           rule of rule, the definitions of rule_context), err whether   *)
(*           it raised (for the exit of a scope: whether the body raised), *)
(*           out what it yielded (for the exit of a scope: the rules that  *)
(*           the exit dropped), before the rows of the store or the        *)
(*           registry as they were when a writing call was made; the end   *)
(*           of a query on its own also records lookups, the in_bulk calls *)
(*   loop    the locals of a running apply_rules: where it is (idle, at the *)
(*           test of the while loop, returned), all_facts, changed,         *)
(*           iterations, and base, the list it was called with              *)

StorableFacts == {Fact(t, a, b) : t \in StorableTypes, a \in Ent, b \in Ent}

(* The rules that rule() and rule_context() are called with *)
GrandparentRule ==
  Rule(Pat("GrandparentOf", Var("grandparent", None), Var("grandchild", None)),
       <<CFact(Pat("ParentOf", Var("grandparent", None), Var("parent", None))),
         CFact(Pat("ParentOf", Var("parent", None), Var("grandchild", None)))>>)

AccessRule ==
  Rule(Pat("HasAccess", Var("user", None), Var("target", None)),
       <<CList(<<<<Pat("ParentOf", Var("user", None), Var("target", None))>>,
                 <<Pat("WorksOn", Var("user", None), Var("target", None))>>>>)>>)

ViaRule ==
  Rule(Pat("HasAccess", Var("user", None), Var("target", None)),
       <<CFact(Pat("GrandparentOf", Var("user", None), Var("target", None)))>>)

TeamRule ==
  Rule(Pat("WorksOn", Var("emp1", None), Var("emp2", None)),
       <<CFact(Pat("ParentOf", Var("emp1", None), Var("emp2", None)))>>)

ReachRule ==
  Rule(Pat("HasAccess", Var("user", None), Var("target", None)),
       <<CFact(Pat("HasAccess", Var("user", None), Var("mid", None))),
         CFact(Pat("ParentOf", Var("mid", None), Var("target", None)))>>)

RuleInputs == {GrandparentRule, AccessRule, ViaRule}

(* The orders in which the database may return the rows of the store *)
RowOrders(S) ==
  {q \in [1..Cardinality(S) -> S] : \A i, j \in 1..Cardinality(S) : q[i] = q[j] => i = j}

(* The rows of the store in the order of their keys *)
RowKey(f) == <<IF f.type = "ParentOf" THEN 1 ELSE 2, f.s, f.o>>

KeyBefore(a, b) ==
  \/ a[1] < b[1]
  \/ a[1] = b[1] /\ a[2] < b[2]
  \/ a[1] = b[1] /\ a[2] = b[2] /\ a[3] < b[3]

RECURSIVE SortedRows(_)
SortedRows(S) ==
  IF S = {} THEN <<>>
  ELSE LET m == CHOOSE x \in S : \A y \in S : x = y \/ KeyBefore(RowKey(x), RowKey(y))
       IN  <<m>> \o SortedRows(S \ {m})

NoLast == [kind |-> "none", q |-> <<>>, err |-> FALSE, out |-> <<>>, before |-> <<>>]

NoLoop == [pc |-> "idle", all_facts |-> <<>>, changed |-> FALSE, iterations |-> 0,
           base |-> <<>>]

Init ==
  /\ store = {}
  /\ _rules = <<>>
  /\ scopes = <<>>
  /\ last = NoLast
  /\ loop = NoLoop

(* facts.py: the keys of facts_by_type, in the order of first appearance *)
TypesInOrder(facts) == Dedup([i \in 1..Len(facts) |-> facts[i].type], <<>>)

(* A batch that holds a row twice, or a row of the table, written without *)
(* ignore_conflicts: the unique constraint raises and the call stops.     *)
RECURSIVE BulkCreateEachStrict(_, _, _)
BulkCreateEachStrict(types, facts, rows) ==
  IF types = <<>> THEN [err |-> FALSE, rows |-> rows]
  ELSE IF _django_model(Head(types)) = "None" THEN [err |-> TRUE, rows |-> rows]
  ELSE LET batch == SelectSeq(facts, LAMBDA f : f.type = Head(types))
       IN  IF Cardinality(SeqToSet(batch)) < Len(batch) \/ SeqToSet(batch) \cap rows # {}
           THEN [err |-> TRUE, rows |-> rows]
           ELSE BulkCreateEachStrict(Tail(types), facts, rows \cup SeqToSet(batch))

(* facts.py: the loop of store_facts over facts_by_type.  The rows of a   *)
(* type are written with one bulk_create(ignore_conflicts=True), which    *)
(* skips a row whose (subject, object) is in the table or earlier in the  *)
(* batch; a type without a storage model raises where its model is        *)
(* called, after the types before it were written.  [err, rows]           *)
RECURSIVE BulkCreateEach(_, _, _)
BulkCreateEach(types, facts, rows) ==
  IF types = <<>> THEN [err |-> FALSE, rows |-> rows]
  ELSE IF _django_model(Head(types)) = "None" THEN [err |-> TRUE, rows |-> rows]
  ELSE BulkCreateEach(Tail(types), facts,
                      rows \cup {f \in SeqToSet(facts) : f.type = Head(types)})

(* A delete whose filter names the type alone *)
RECURSIVE DeleteEachOfType(_, _, _)
DeleteEachOfType(types, facts, rows) ==
  IF types = <<>> THEN [err |-> FALSE, rows |-> rows]
  ELSE IF _django_model(Head(types)) = "None" THEN [err |-> TRUE, rows |-> rows]
  ELSE DeleteEachOfType(Tail(types), facts, {f \in rows : f.type # Head(types)})

(* facts.py: the loop of retract_facts over facts_by_type: for every fact *)
(* of a type the rows with its subject and object are deleted; a type     *)
(* without a storage model raises where its manager is read.  [err, rows] *)
RECURSIVE DeleteEach(_, _, _)
DeleteEach(types, facts, rows) ==
  IF types = <<>> THEN [err |-> FALSE, rows |-> rows]
  ELSE IF _django_model(Head(types)) = "None" THEN [err |-> TRUE, rows |-> rows]
  ELSE DeleteEach(Tail(types), facts,
                  rows \ {f \in SeqToSet(facts) : f.type = Head(types)})

(* facts.py: store_facts called with the facts of the sequence *)
store_facts(facts) ==
  LET res == BulkCreateEach(TypesInOrder(facts), facts, store)
  IN  /\ last = NoLast
      /\ Cardinality(res.rows) <= MaxStore
      /\ store' = res.rows
      /\ last' = [kind |-> "store", q |-> facts, err |-> res.err, out |-> <<>>,
                  before |-> SortedRows(store)]
      /\ UNCHANGED <<_rules, scopes, loop>>

(* facts.py: retract_facts called with the facts of the sequence, after *)
(* the caller dropped the last outcome or at once after a store_facts   *)
retract_facts(facts) ==
  LET res == DeleteEach(TypesInOrder(facts), facts, store)
  IN  /\ last = NoLast \/ last.kind = "store"
      /\ store' = res.rows
      /\ last' = [kind |-> "retract", q |-> facts, err |-> res.err, out |-> <<>>,
                  before |-> SortedRows(store)]
      /\ UNCHANGED <<_rules, scopes, loop>>

(* rules.py: rule() appends, whatever the head and the body, and raises *)
(* nothing                                                              *)
rule(r) ==
  /\ last = NoLast
  /\ Len(_rules) < MaxRules
  /\ _rules' = Append(_rules, r)
  /\ last' = [kind |-> "rule", q |-> <<r>>, err |-> FALSE, out |-> <<>>, before |-> _rules]
  /\ UNCHANGED <<store, scopes, loop>>

(* A query that writes the candidate facts of its first pattern, the     *)
(* inferred ones included, to the store                                  *)
QueryMaterializing(patterns, rows) ==
  LET res == query(patterns, _rules, rows)
      relevant_facts == _get_facts_for_pattern(Head(optimize_query(patterns)), _rules, rows)
  IN  /\ last = NoLast
      /\ last' = [kind |-> "query", q |-> patterns, err |-> res.err, out |-> res.out,
                  before |-> <<>>]
      /\ store' = store \cup SeqToSet(relevant_facts.facts)
      /\ UNCHANGED <<_rules, scopes, loop>>

(* query.py: the caller lists query(...) with hydrate=False *)
Query(patterns, rows) ==
  LET res == query(patterns, _rules, rows)
  IN  /\ last = NoLast
      /\ last' = [kind |-> "query", q |-> patterns, err |-> res.err, out |-> res.out,
                  before |-> <<>>]
      /\ UNCHANGED <<store, _rules, scopes, loop>>

(* the caller is done with the result list *)
Discard ==
  /\ last # NoLast
  /\ last' = NoLast
  /\ UNCHANGED <<store, _rules, scopes, loop>>

(* rules.py: rule_context up to its yield.  A definition is the tuple of a *)
(* head and its body conditions; one of fewer than two elements is skipped.*)
RegisterAll(rule_definitions) ==
  SelectSeq(rule_definitions, LAMBDA d : Len(d.body) >= 1)

EnterContext(rule_definitions) ==
  /\ last = NoLast
  /\ Len(scopes) < MaxDepth
  /\ scopes' = Append(scopes, _rules)
  /\ _rules' = _rules \o RegisterAll(rule_definitions)
  /\ last' = [kind |-> "enter", q |-> rule_definitions, err |-> FALSE, out |-> <<>>,
              before |-> _rules]
  /\ UNCHANGED <<store, loop>>

(* The exit of a scope whose finally clause is skipped when the body raises *)
ExitContextNoFinally(raised) ==
  /\ last = NoLast
  /\ scopes # <<>>
  /\ _rules' = IF raised THEN _rules ELSE scopes[Len(scopes)]
  /\ scopes' = SubSeq(scopes, 1, Len(scopes) - 1)
  /\ last' = [kind |-> "exit", q |-> <<>>, err |-> raised,
              out |-> SubSeq(_rules, Len(scopes[Len(scopes)]) + 1, Len(_rules)),
              before |-> _rules]
  /\ UNCHANGED <<store, loop>>

(* The exit of a scope that restores what the outermost scope saved *)
ExitContextToOutermost(raised) ==
  /\ last = NoLast
  /\ scopes # <<>>
  /\ _rules' = scopes[1]
  /\ scopes' = SubSeq(scopes, 1, Len(scopes) - 1)
  /\ last' = [kind |-> "exit", q |-> <<>>, err |-> raised,
              out |-> SubSeq(_rules, Len(scopes[Len(scopes)]) + 1, Len(_rules)),
              before |-> _rules]
  /\ UNCHANGED <<store, loop>>

(* rules.py: rule_context from its yield on: the finally clause, whether *)
(* the body finished or raised                                           *)
ExitContext(raised) ==
  /\ last = NoLast
  /\ scopes # <<>>
  /\ _rules' = scopes[Len(scopes)]
  /\ scopes' = SubSeq(scopes, 1, Len(scopes) - 1)
  /\ last' = [kind |-> "exit", q |-> <<>>, err |-> raised,
              out |-> SubSeq(_rules, Len(scopes[Len(scopes)]) + 1, Len(_rules)),
              before |-> _rules]
  /\ UNCHANGED <<store, loop>>

(* The patterns that query is called with *)
SubjectTerms == {Const(1), Var("emp", None), Var("emp", Adult)}

ObjectTerms ==
  {Var("company", None), Var("emp", None), Var("company", Adult),
   Var("company", SameCompany("emp"))}

(* a where names only variables of the conjunction *)
RefsBound(p) ==
  \A term \in {p.s, p.o} :
    isVar(term) =>
      \A i \in 1..Len(term.where) :
        term.where[i].ref # "" =>
          term.where[i].ref \in {x.name : x \in {y \in {p.s, p.o} : isVar(y)}}

SingleQueries ==
  {<<p>> : p \in {x \in {Pat(t, s, o) : t \in FactTypes, s \in SubjectTerms, o \in ObjectTerms} :
                   RefsBound(x)}}
    \cup {<<Pat(t, Const(1), Const(2))>> : t \in FactTypes}

WorksForAndOn ==
  <<Pat("ParentOf", Var("emp", None), Var("company", None)),
    Pat("WorksOn", Var("emp", None), Var("project", SameCompany("company")))>>

PairQueries ==
  {WorksForAndOn,
   <<WorksForAndOn[2], WorksForAndOn[1]>>,
   <<Pat("ParentOf", Var("emp", None), Var("company", None)),
     Pat("WorksOn", Var("emp", None), Var("project", Adult))>>,
   <<Pat("ParentOf", Var("emp", None), Var("company", None)),
     Pat("ParentOf", Var("company", None), Var("project", Adult))>>,
   <<Pat("ParentOf", Var("emp", None), Var("company", None)),
     Pat("GrandparentOf", Var("emp", None), Var("project", Adult))>>}

QueryInputs == SingleQueries \cup PairQueries

(* The order of the rows changes more than the order of the results only   *)
(* when the conversion annotates from a second storage model; for every    *)
(* other conjunction one order stands for all.                             *)
NeedsOrder(patterns) ==
  \E i, j \in 1..Len(patterns) :
    /\ ~_is_inferred(patterns[i].type)
    /\ ~_is_inferred(patterns[j].type)
    /\ patterns[i].type # patterns[j].type

Next ==
  \/ \E f \in StorableFacts : store_facts(<<f>>)
  \/ \E f \in StorableFacts : retract_facts(<<f>>)
  \/ \E r \in RuleInputs \ SeqToSet(_rules) : rule(r)
  \/ LET sorted == SortedRows(store)
     IN  \E patterns \in QueryInputs :
           \E rows \in IF NeedsOrder(patterns) THEN RowOrders(store) ELSE {sorted} :
             Query(patterns, rows)
  \/ Discard

(* The scoped registry: a store that is not written, rules registered     *)
(* globally and through scopes, and queries on the head types.            *)
ScopeStore == {Fact("ParentOf", 1, 2), Fact("ParentOf", 2, 1)}

ScopeRules == {GrandparentRule, TeamRule}

HeadOnly == Rule(Pat("GrandparentOf", Var("grandparent", None), Var("grandchild", None)), <<>>)

ScopeDefinitions == {<<>>} \cup {<<d>> : d \in ScopeRules \cup {HeadOnly}}

ScopeQueries ==
  {<<Pat(t, Var("emp", None), Var("company", None))>> : t \in {"GrandparentOf", "WorksOn"}}

InitScope ==
  /\ store = ScopeStore
  /\ _rules = <<>>
  /\ scopes = <<>>
  /\ last = NoLast
  /\ loop = NoLoop

NextScope ==
  \/ \E r \in ScopeRules : rule(r)
  \/ \E rule_definitions \in ScopeDefinitions : EnterContext(rule_definitions)
  \/ \E raised \in BOOLEAN : ExitContext(raised)
  \/ \E patterns \in ScopeQueries : Query(patterns, SortedRows(store))
  \/ Discard

SpecScope == InitScope /\ [][NextScope]_vars

(* rules.py: the finally clause of a rule_context that need not be the    *)
(* one entered last: two threads, or two suspended generators, share the  *)
(* registry and each holds the original_rules of its own scope.  scopes   *)
(* lists what the active scopes saved, in the order of their entry.       *)
ExitContextOf(i, raised) ==
  /\ last = NoLast
  /\ i \in 1..Len(scopes)
  /\ _rules' = scopes[i]
  /\ scopes' = SubSeq(scopes, 1, i - 1) \o SubSeq(scopes, i + 1, Len(scopes))
  /\ last' = [kind |-> "exit", q |-> <<>>, err |-> raised, out |-> <<>>, before |-> _rules]
  /\ UNCHANGED <<store, loop>>

(* The rules that a caller outside every scope registers with rule().  A  *)
(* scope that outlives one entered before it leaves its rule behind, so   *)
(* the registry may grow with every pair of scopes: scopes are entered    *)
(* while it holds at most MaxRules rules.                                 *)
OutsideRules == {ViaRule}

NextOverlap ==
  \/ \E r \in OutsideRules \ SeqToSet(_rules) : rule(r)
  \/ /\ Len(_rules) <= MaxRules
     /\ \E rule_definitions \in ScopeDefinitions : EnterContext(rule_definitions)
  \/ \E i \in 1..MaxDepth, raised \in BOOLEAN : ExitContextOf(i, raised)
  \/ Discard

SpecOverlap == InitScope /\ [][NextOverlap]_vars

(* apply_rules, pass by pass.  It is called with a list of facts whose    *)
(* keys need not be keys of the entity tables: a chain of links           *)
(* ParentOf(0, 1), ParentOf(1, 2), ... headed by HasAccess(0, 0), over    *)
(* which ReachRule derives one fact in every pass.                        *)
Chain(n) == <<Fact("HasAccess", 0, 0)>> \o [i \in 1..n |-> Fact("ParentOf", i - 1, i)]

BaseInputs == {Chain(n) : n \in {0, 1, 2, ChainLen}} \cup {SortedRows(ScopeStore)}

LoopRegistries == {<<ReachRule>>, <<GrandparentRule, ViaRule>>}

apply_rules_call(base_facts) ==
  /\ loop.pc = "idle"
  /\ loop' = [pc |-> "while", all_facts |-> base_facts, changed |-> TRUE, iterations |-> 0,
              base |-> base_facts]
  /\ UNCHANGED <<store, _rules, scopes, last>>

(* one pass of the while loop: every rule of the registry, in order *)
apply_rules_pass ==
  /\ loop.pc = "while"
  /\ LoopCondition(loop.changed, loop.iterations)
  /\ LET r == RulePass(_rules, loop.all_facts, FALSE)
     IN  loop' = [loop EXCEPT !.all_facts = r.facts, !.changed = r.changed,
                              !.iterations = loop.iterations + 1]
  /\ UNCHANGED <<store, _rules, scopes, last>>

(* return all_facts *)
apply_rules_return ==
  /\ loop.pc = "while"
  /\ ~LoopCondition(loop.changed, loop.iterations)
  /\ loop' = [loop EXCEPT !.pc = "returned"]
  /\ UNCHANGED <<store, _rules, scopes, last>>

(* the caller has the list *)
apply_rules_done ==
  /\ loop.pc = "returned"
  /\ loop' = NoLoop
  /\ UNCHANGED <<store, _rules, scopes, last>>

InitLoop ==
  /\ store = {}
  /\ _rules \in LoopRegistries
  /\ scopes = <<>>
  /\ last = NoLast
  /\ loop = NoLoop

NextLoop ==
  \/ \E base_facts \in BaseInputs : apply_rules_call(base_facts)
  \/ apply_rules_pass
  \/ apply_rules_return
  \/ apply_rules_done

SpecLoop == InitLoop /\ [][NextLoop]_vars

(* Registration alone: rule() and rule_context() called with rules whose  *)
(* head is of an inferred or of a storable type and whose body holds      *)
(* conditions, none, or a list without alternatives.                      *)
EmptyAltRule ==
  Rule(Pat("HasAccess", Var("user", None), Var("target", None)), <<CList(<<>>)>>)

RegisterInputs == {GrandparentRule, TeamRule, HeadOnly, EmptyAltRule}

RegisterDefinitions == {<<>>} \cup {<<d>> : d \in RegisterInputs}

InitRegister ==
  /\ store = {}
  /\ _rules = <<>>
  /\ scopes = <<>>
  /\ last = NoLast
  /\ loop = NoLoop

NextRegister ==
  \/ \E r \in RegisterInputs : rule(r)
  \/ \E rule_definitions \in RegisterDefinitions : EnterContext(rule_definitions)
  \/ \E raised \in BOOLEAN : ExitContext(raised)
  \/ Discard

SpecRegister == InitRegister /\ [][NextRegister]_vars

(* The fact store alone: calls of store_facts and retract_facts with no,  *)
(* one or two facts, of types with and without a storage model.           *)
StoreFactInputs ==
  {Fact("ParentOf", 1, 1), Fact("ParentOf", 1, 2), Fact("WorksOn", 1, 1),
   Fact("GrandparentOf", 1, 2)}

StoreInputs ==
  {<<>>} \cup {<<f>> : f \in StoreFactInputs}
         \cup {<<f, g>> : f \in StoreFactInputs, g \in StoreFactInputs}

InitStore ==
  /\ store = {}
  /\ _rules = <<>>
  /\ scopes = <<>>
  /\ last = NoLast
  /\ loop = NoLoop

NextStore ==
  \/ \E facts \in StoreInputs : store_facts(facts)
  \/ \E facts \in StoreInputs : retract_facts(facts)
  \/ Discard

SpecStore == InitStore /\ [][NextStore]_vars

(* The optimizer on its own: propagate_constraints and optimize_query on  *)
(* pattern lists of up to MaxPatterns patterns, and propagate_constraints *)
(* on its own output.  last.q is the list handed over, last.out the list  *)
(* returned, last.before the list the first application was given.        *)
MaxPatterns == 2

OptimizerSubjects == {Const(1), Var("emp", None), Var("emp", Adult), Var("emp", Manager)}

OptimizerObjects ==
  {Const(2), Var("company", None), Var("company", Adult),
   Var("company", SameCompany("emp")), Var("emp", Manager)}

OptimizerPatterns ==
  {Pat(t, s, o) : t \in StorableTypes, s \in OptimizerSubjects, o \in OptimizerObjects}

OptimizerInputs == UNION {[1..n -> OptimizerPatterns] : n \in 1..MaxPatterns}

Propagate(fact_patterns) ==
  /\ last = NoLast
  /\ last' = [kind |-> "propagate", q |-> fact_patterns, err |-> FALSE,
              out |-> propagate_constraints(fact_patterns), before |-> fact_patterns]
  /\ UNCHANGED <<store, _rules, scopes, loop>>

PropagateAgain ==
  /\ last.kind = "propagate"
  /\ last' = [kind |-> "propagate_again", q |-> last.out, err |-> FALSE,
              out |-> propagate_constraints(last.out), before |-> last.q]
  /\ UNCHANGED <<store, _rules, scopes, loop>>

Optimize(fact_patterns) ==
  /\ last = NoLast
  /\ last' = [kind |-> "optimize", q |-> fact_patterns, err |-> FALSE,
              out |-> optimize_query(fact_patterns), before |-> fact_patterns]
  /\ UNCHANGED <<store, _rules, scopes, loop>>

InitOptimize ==
  /\ store = {}
  /\ _rules = <<>>
  /\ scopes = <<>>
  /\ last = NoLast
  /\ loop = NoLoop

NextOptimize ==
  \/ /\ last = NoLast
     /\ \E fact_patterns \in OptimizerInputs : Propagate(fact_patterns)
  \/ PropagateAgain
  \/ /\ last = NoLast
     /\ \E fact_patterns \in OptimizerInputs : Optimize(fact_patterns)
  \/ Discard

SpecOptimize == InitOptimize /\ [][NextOptimize]_vars

(* Hydration on its own: the end of query, from the key-only binding     *)
(* sets that the solver yielded, with hydrate=True and with               *)
(* hydrate=False.  The keys are those of Ent and one key that no entity   *)
(* has.  last.before holds the key-only binding sets, last.out what query *)
(* yielded, last.lookups the in_bulk calls that were made.                *)
MaxResults == 2

HydrateKeys == Ent \cup {3}

HydratePatterns ==
  {<<Pat("ParentOf", Var("emp", None), Var("company", None))>>,
   <<Pat("WorksOn", Var("emp", None), Var("company", None))>>,
   <<Pat("GrandparentOf", Const(1), Var("company", Adult))>>,
   <<Pat("WorksOn", Var("emp", None), Var("project", None)),
     Pat("ParentOf", Var("project", None), Var("emp", None))>>,
   <<Pat("ParentOf", Var("emp", None), Var("company", None)),
     Pat("WorksOn", Var("emp", None), Var("project", None))>>}

KeyOnlyResults(fact_patterns) ==
  UNION {[1..n -> [ExpectedVars(fact_patterns) -> HydrateKeys]] : n \in 0..MaxResults}

QueryHydrated(fact_patterns, pk_results) ==
  LET hydrated == _hydrate_results(pk_results, fact_patterns)
  IN  /\ last = NoLast
      /\ last' = [kind |-> "hydrated", q |-> fact_patterns, err |-> FALSE,
                  out |-> hydrated.out, before |-> pk_results,
                  lookups |-> hydrated.lookups]
      /\ UNCHANGED <<store, _rules, scopes, loop>>

QueryKeyOnly(fact_patterns, pk_results) ==
  /\ last = NoLast
  /\ last' = [kind |-> "key_only", q |-> fact_patterns, err |-> FALSE,
              out |-> pk_results, before |-> pk_results, lookups |-> {}]
  /\ UNCHANGED <<store, _rules, scopes, loop>>

InitHydrate ==
  /\ store = {}
  /\ _rules = <<>>
  /\ scopes = <<>>
  /\ last = NoLast
  /\ loop = NoLoop

NextHydrate ==
  \/ /\ last = NoLast
     /\ \E fact_patterns \in HydratePatterns :
          \E pk_results \in KeyOnlyResults(fact_patterns) :
            QueryHydrated(fact_patterns, pk_results)
  \/ /\ last = NoLast
     /\ \E fact_patterns \in HydratePatterns :
          \E pk_results \in KeyOnlyResults(fact_patterns) :
            QueryKeyOnly(fact_patterns, pk_results)
  \/ Discard

SpecHydrate == InitHydrate /\ [][NextHydrate]_vars

(* Rules with predicates in their bodies: facts are stored, the rules    *)
(* are registered, and the head types are queried with variables named   *)
(* as in the rule and named otherwise, while the store answers and while *)
(* it is down.                                                           *)
AdultChildRule ==
  Rule(Pat("GrandparentOf", Var("grandparent", None), Var("grandchild", None)),
       <<CFact(Pat("ParentOf", Var("grandparent", None), Var("grandchild", Adult)))>>)

OwnCompanyRule ==
  Rule(Pat("HasAccess", Var("user", None), Var("target", None)),
       <<CFact(Pat("ParentOf", Var("user", None), Var("target", SameCompany("user"))))>>)

BodyRules == {AdultChildRule, OwnCompanyRule}

BodyQueries ==
  {<<Pat(t, s, o)>> : t \in InferredTypes,
                      s \in {Const(1), Var("emp", None)},
                      o \in {Var("company", None)}}
    \cup {<<AdultChildRule.head>>, <<OwnCompanyRule.head>>}

(* A query while the store is down: every access to the store raises     *)
(* during the query.  last.err says whether the error reached the caller. *)
QueryOnFailingStore(patterns) ==
  LET res == query_on_failing_store(patterns, _rules)
  IN  /\ last = NoLast
      /\ last' = [kind |-> "query_store_down", q |-> patterns, err |-> res.err,
                  out |-> res.out, before |-> SortedRows(store)]
      /\ UNCHANGED <<store, _rules, scopes, loop>>

InitBody ==
  /\ store = {}
  /\ _rules = <<>>
  /\ scopes = <<>>
  /\ last = NoLast
  /\ loop = NoLoop

NextBody ==
  \/ /\ last = NoLast
     /\ \E f \in StorableFacts : store_facts(<<f>>)
  \/ /\ last = NoLast
     /\ \E r \in BodyRules \ SeqToSet(_rules) : rule(r)
  \/ /\ last = NoLast
     /\ \E patterns \in BodyQueries : Query(patterns, SortedRows(store))
  \/ /\ last = NoLast
     /\ \E patterns \in BodyQueries : QueryOnFailingStore(patterns)
  \/ Discard

SpecBody == InitBody /\ [][NextBody]_vars

Spec == Init /\ [][Next]_vars

-----------------------------------------------------------------------------
(* What a rule set and a conjunction mean: the facts derivable from the    *)
(* store by the registered rules (the least fixpoint, a conjunction read   *)
(* as AND, a list of alternatives as OR), and the assignments that satisfy *)
(* a conjunction over those facts.  The properties below compare what      *)
(* query returned with this meaning.                                       *)

AllFacts == {Fact(t, a, b) : t \in FactTypes, a \in Ent, b \in Ent}

TermNames(term) == IF isVar(term) THEN {term.name} ELSE {}

PatNames(p) == TermNames(p.s) \cup TermNames(p.o)

CondPatterns(c) ==
  IF c.k = "fact" THEN {c.p}
  ELSE UNION {SeqToSet(c.alts[i]) : i \in 1..Len(c.alts)}

RuleNames(r) ==
  PatNames(r.head)
    \cup UNION {PatNames(p) : p \in UNION {CondPatterns(r.body[i]) : i \in 1..Len(r.body)}}

TermVal(term, asg) == IF isVar(term) THEN asg[term.name] ELSE term.v

Inst(p, asg) == Fact(p.type, TermVal(p.s, asg), TermVal(p.o, asg))

CondHolds(c, asg, F) ==
  IF c.k = "fact" THEN Inst(c.p, asg) \in F
  ELSE \E i \in 1..Len(c.alts) :
         \A j \in 1..Len(c.alts[i]) : Inst(c.alts[i][j], asg) \in F

Consequences(r, F) ==
  {Inst(r.head, asg) : asg \in {a \in [RuleNames(r) -> Ent] :
                                  \A i \in 1..Len(r.body) : CondHolds(r.body[i], a, F)}}

RECURSIVE Closure(_, _)
Closure(F, rules) ==
  LET G == F \cup UNION {Consequences(r, F) : r \in rules}
  IN  IF G = F THEN F ELSE Closure(G, rules)

Derivable == Closure(store, SeqToSet(_rules))

QueryNames(q) == UNION {PatNames(q[j]) : j \in 1..Len(q)}

(* the where of a term holds for the entity the assignment gives it *)
WhereHolds(term, asg) ==
  isVar(term) => \A i \in 1..Len(term.where) : LookupHolds(asg[term.name], term.where[i], asg)

Answers(q, F) ==
  {asg \in [QueryNames(q) -> Ent] :
     \A j \in 1..Len(q) :
       /\ Inst(q[j], asg) \in F
       /\ WhereHolds(q[j].s, asg)
       /\ WhereHolds(q[j].o, asg)}

Returned == SeqToSet(last.out)

-----------------------------------------------------------------------------
(* C1: soundness.  Every binding set that query yielded binds the          *)
(* variables of every pattern of the conjunction, and each pattern with    *)
(* its variables replaced by their values is a stored fact or a fact       *)
(* derivable from the stored facts by the registered rules.                *)
C1_Soundness ==
  last.kind = "query" =>
    \A b \in Returned :
      \A j \in 1..Len(last.q) :
        /\ PatNames(last.q[j]) \subseteq DOMAIN b
        /\ Inst(last.q[j], b) \in Derivable

(* C2: completeness within the cap.  A query on one pattern of an        *)
(* inferred type returns every assignment whose fact of that type is       *)
(* derivable from the stored facts by the registered rules.  Stated for    *)
(* the registries whose rule bodies are plain conjunctions of patterns.    *)
FlatBodies ==
  \A i \in 1..Len(_rules) :
    \A k \in 1..Len(_rules[i].body) : _rules[i].body[k].k = "fact"

C2_Completeness ==
  (last.kind = "query" /\ Len(last.q) = 1 /\ _is_inferred(last.q[1].type) /\ FlatBodies)
    => Answers(last.q, Derivable) \subseteq Returned

(* C3: fixpoint termination.  A call of apply_rules makes at most        *)
(* max_iterations passes: every pass counts one up and the count never   *)
(* exceeds the cap, so the passes of a call are finitely many.  A pass   *)
(* sets changed exactly when it added a fact; the call returns, without  *)
(* raising, when a pass added nothing or when the cap is reached, and    *)
(* what it returns starts with the base facts, followed by the facts     *)
(* derived so far.                                                       *)
C3_FixpointTermination ==
  /\ [](loop.iterations <= max_iterations)
  /\ [](loop.pc = "returned" =>
          /\ ~loop.changed \/ loop.iterations = max_iterations
          /\ IsPrefix(loop.base, loop.all_facts))
  /\ [][(loop.pc = "while" /\ loop'.pc = "while") =>
          /\ loop.changed
          /\ loop'.iterations = loop.iterations + 1
          /\ loop'.changed = (loop'.all_facts # loop.all_facts)
          /\ IsPrefix(loop.all_facts, loop'.all_facts)]_vars
  /\ [][(loop.pc = "while" /\ loop'.pc # "while") =>
          /\ loop'.pc = "returned"
          /\ ~loop.changed \/ loop.iterations = max_iterations
          /\ loop'.all_facts = loop.all_facts]_vars

(* C3 witness: the call returned at the cap with the last pass still *)
(* adding a fact.                                                    *)
C3_Witness ==
  /\ loop.pc = "returned"
  /\ loop.iterations = max_iterations
  /\ loop.changed
  /\ Len(loop.all_facts) = Len(loop.base) + max_iterations

(* C4: cross-variable constraints.  A binding set is yielded only if every *)
(* cross-variable predicate of the conjunction, with the variables it      *)
(* names replaced by their values in that binding set, holds for the       *)
(* entity bound to the constrained variable; and for the conjunction of    *)
(* Scenario D every employee with a project of their employer appears.     *)
CrossTerm(term) ==
  isVar(term) /\ term.where # None /\ has_variable_references(term.where)

QueryTerms(q) == UNION {{q[j].s, q[j].o} : j \in 1..Len(q)}

C4_CrossVariable ==
  last.kind = "query" =>
    /\ \A b \in Returned :
         \A term \in QueryTerms(last.q) :
           CrossTerm(term) =>
             /\ QueryNames(last.q) \subseteq DOMAIN b
             /\ \A i \in 1..Len(term.where) : LookupHolds(b[term.name], term.where[i], b)
    /\ last.q = WorksForAndOn =>
         {a["emp"] : a \in Answers(last.q, Derivable)} \subseteq {b["emp"] : b \in Returned}

(* C5: self-contained constraints filter results.  Every binding set       *)
(* yielded binds each variable that carries a self-contained predicate in  *)
(* the query to an entity that satisfies it, for stored and for inferred   *)
(* types; and the query of Scenario B, GrandparentOf(1, ?company where     *)
(* age >= 18), yields exactly the adult grandchildren of 1.                *)
SelfContainedTerm(term) ==
  isVar(term) /\ term.where # None /\ ~has_variable_references(term.where)

ScenarioB == <<Pat("GrandparentOf", Const(1), Var("company", Adult))>>

C6_DisjunctionIsUnion ==
  (/\ last.kind = "query"
   /\ Len(_rules) = 1
   /\ \E k \in 1..Len(_rules[1].body) : _rules[1].body[k].k = "list"
   /\ last.q = <<Pat(_rules[1].head.type, Var("emp", None), Var("company", None))>>)
    => ~last.err /\ Returned = Answers(last.q, Derivable)

(* C7: conflict detection.  A pattern whose subject and object are the    *)
(* same variable yields bindings only from facts whose subject equals     *)
(* their object: each value returned for the variable is the subject and  *)
(* the object of a stored or derivable fact of the type, and a query of   *)
(* this one pattern yields no more binding sets than there are such facts.*)
SameVariable(p) == isVar(p.s) /\ isVar(p.o) /\ p.s.name = p.o.name

C7_ConflictDetection ==
  last.kind = "query" =>
    \A j \in 1..Len(last.q) :
      SameVariable(last.q[j]) =>
        /\ \A b \in Returned :
             /\ last.q[j].s.name \in DOMAIN b
             /\ Fact(last.q[j].type, b[last.q[j].s.name], b[last.q[j].s.name]) \in Derivable
        /\ Len(last.q) = 1 =>
             Len(last.out) <= Cardinality({f \in Derivable : f.type = last.q[j].type /\ f.s = f.o})

(* C8: scoped registry restore.  Entering a scope saves the registry as   *)
(* it is at that moment, no step changes what an active scope saved, and  *)
(* the exit of a scope, whether its body finished or raised, leaves the   *)
(* registry equal, rule by rule and in order, to what that scope saved.   *)
C8_ScopeRestore ==
  [][/\ Len(scopes') > Len(scopes) => scopes'[Len(scopes')] = _rules
     /\ \A i \in 1..Len(scopes) : i <= Len(scopes') => scopes'[i] = scopes[i]
     /\ Len(scopes') < Len(scopes) => _rules' = scopes[Len(scopes)]]_vars

(* C8 witness: a scope whose body raised has exited; the exit dropped a   *)
(* rule added inside and the rule registered before entry is still there. *)
C8_Witness ==
  /\ last.kind = "exit"
  /\ last.err
  /\ last.out # <<>>
  /\ scopes = <<>>
  /\ _rules # <<>>

(* C9: nested scopes compose.  While an inner scope is active the         *)
(* registry extends the registry saved at its entry, which extends the    *)
(* registry saved at the entry of the scope around it: the pre-existing   *)
(* rules, the outer scope's rules and the inner scope's rules are all     *)
(* there.  When the inner scope exits and the outer one stays active, the *)
(* registry is again what it was at the inner entry: the inner scope's    *)
(* rules are gone, the outer scope's and the pre-existing ones remain.    *)
C9_NestedScopes ==
  /\ [](\A i \in 1..Len(scopes) :
          IsPrefix(scopes[i], IF i < Len(scopes) THEN scopes[i + 1] ELSE _rules))
  /\ [][(Len(scopes) >= 2 /\ Len(scopes') = Len(scopes) - 1) =>
          /\ _rules' = scopes[Len(scopes)]
          /\ IsPrefix(scopes'[Len(scopes')], _rules')]_vars

(* C9 witness: an inner scope has exited and dropped its rule; the outer  *)
(* scope is active and the registry holds a pre-existing rule and the     *)
(* outer scope's rule.                                                    *)
C9_Witness ==
  /\ last.kind = "exit"
  /\ last.out # <<>>
  /\ Len(scopes) = 1
  /\ scopes[1] # <<>>
  /\ Len(_rules) > Len(scopes[1])

(* C10: rule-scope isolation of query results.  A query on a head type    *)
(* with two variables yields nothing while no rule of that head type is   *)
(* registered (before the scope is entered and after it has exited), and  *)
(* yields the derived facts while a scope is active that registered the   *)
(* only rules of that head type.                                          *)
HeadRules(t, rules) == {i \in 1..Len(rules) : rules[i].head.type = t}

C10_ScopeIsolation ==
  (last.kind = "query" /\ last.q \in ScopeQueries) =>
    LET t == last.q[1].type
    IN  /\ HeadRules(t, _rules) = {} => Returned = {}
        /\ (scopes # <<>> /\ HeadRules(t, _rules) # {} /\ HeadRules(t, scopes[1]) = {})
             => ~last.err /\ Returned = Answers(last.q, Derivable)

(* C11: rule head validation.  A call of rule with a head of a storable   *)
(* type raises and leaves the registry as it was; a call with a head of   *)
(* an inferred type and a body of patterns raises nothing and appends the *)
(* rule.                                                                  *)
C11_RuleHeadValidation ==
  last.kind = "rule" =>
    LET r == last.q[1]
    IN  /\ ~_is_inferred(r.head.type) => last.err /\ _rules = last.before
        /\ (_is_inferred(r.head.type) /\ r.body # <<>>
               /\ \A k \in 1..Len(r.body) : r.body[k].k = "fact")
             => ~last.err /\ _rules = Append(last.before, r)

(* C12: storage violation.  A call of store_facts with a fact of an       *)
(* inferred type raises, and the store holds after it exactly the rows it *)
(* held before: no fact of the call was written.                          *)
C12_StorageViolation ==
  (last.kind = "store" /\ \E i \in 1..Len(last.q) : _is_inferred(last.q[i].type))
    => last.err /\ store = SeqToSet(last.before)

(* C13: empty rule bodies are rejected.  Registering a rule with no body  *)
(* condition, or with an alternative list that holds no alternative or an *)
(* empty one, raises and leaves the registry as it was, through rule()    *)
(* and through the arguments of rule_context.                             *)
StructurallyEmpty(r) ==
  \/ r.body = <<>>
  \/ \E k \in 1..Len(r.body) :
       /\ r.body[k].k \in {"list", "tuple"}
       /\ r.body[k].alts = <<>> \/ \E a \in 1..Len(r.body[k].alts) : r.body[k].alts[a] = <<>>

C13_EmptyBodyRejected ==
  (last.kind \in {"rule", "enter"} /\ \E i \in 1..Len(last.q) : StructurallyEmpty(last.q[i]))
    => last.err /\ _rules = last.before

(* C14: order independence.  The binding sets that a query on two         *)
(* patterns yielded are, as a set, the binding sets that the query on the *)
(* same two patterns in the other order yields over the same store and    *)
(* registry (for some order in which the database returns the rows), and  *)
(* the one raises only if the other does.                                 *)
Swapped(q) == <<q[2], q[1]>>

C14_OrderIndependence ==
  (last.kind = "query" /\ Len(last.q) = 2) =>
    \E rows \in RowOrders(store) :
      LET other == query(Swapped(last.q), _rules, rows)
      IN  other.err = last.err /\ SeqToSet(other.out) = Returned

(* C15: one result per distinct assignment.  Within the results of one    *)
(* query no binding set occurs twice, and every yielded binding set binds *)
(* every variable that appears anywhere in the pattern list.              *)
C15_OneResultPerAssignment ==
  last.kind = "query" =>
    /\ \A i, j \in 1..Len(last.out) : i # j => last.out[i] # last.out[j]
    /\ \A i \in 1..Len(last.out) : DOMAIN last.out[i] = QueryNames(last.q)

(* C16: constraint propagation.  In the list that propagate_constraints  *)
(* returns, every occurrence of a variable name, in any pattern and in    *)
(* either position, carries the conjunction of all self-contained         *)
(* predicates attached to any occurrence of that name in the input (the   *)
(* conjuncts of its predicate are exactly theirs); an occurrence of a     *)
(* name with no self-contained predicate anywhere is returned as it was,  *)
(* so a name with no predicate stays unconstrained; no conjunct comes     *)
(* from another name; and the number, the order and the relation types of *)
(* the patterns and their constant terms are unchanged.                   *)
Occurrences(q, n) ==
  {t \in UNION {{q[i].s, q[i].o} : i \in 1..Len(q)} : isVar(t) /\ t.name = n}

SelfContained(q, n) ==
  {t.where : t \in {x \in Occurrences(q, n) :
                      x.where # None /\ \A k \in 1..Len(x.where) : x.where[k].ref = ""}}

Conjuncts(q, n) == UNION {SeqToSet(w) : w \in SelfContained(q, n)}

Carries(given, returned, q) ==
  IF ~isVar(given) THEN returned = given
  ELSE IF SelfContained(q, given.name) = {} THEN returned = given
  ELSE /\ isVar(returned)
       /\ returned.name = given.name
       /\ SeqToSet(returned.where) = Conjuncts(q, given.name)

C16_ConstraintPropagation ==
  last.kind \in {"propagate", "propagate_again"} =>
    /\ Len(last.out) = Len(last.q)
    /\ \A i \in 1..Len(last.q) :
         /\ last.out[i].type = last.q[i].type
         /\ Carries(last.q[i].s, last.out[i].s, last.q)
         /\ Carries(last.q[i].o, last.out[i].o, last.q)

(* C16 witness: emp carries age__gte=18 in one pattern and is_manager in  *)
(* another, company carries a cross-variable predicate only; both         *)
(* occurrences of emp came back with the two conjuncts, the constant and  *)
(* company as they were.                                                  *)
C16_Witness ==
  /\ last.kind = "propagate"
  /\ last.q = <<Pat("ParentOf", Var("emp", Adult), Var("company", SameCompany("emp"))),
                Pat("WorksOn", Const(1), Var("emp", Manager))>>
  /\ last.out = <<Pat("ParentOf", Var("emp", Adult \o Manager), Var("company", SameCompany("emp"))),
                  Pat("WorksOn", Const(1), Var("emp", Adult \o Manager))>>

(* C17: constraint propagation idempotence.  propagate_constraints        *)
(* applied to its own output returns that output: the same pattern list,  *)
(* every occurrence with the same predicate.                              *)
C17_PropagationIdempotence ==
  last.kind = "propagate_again" => last.out = last.q

(* C18: execution planning.  The list that optimize_query returns is the  *)
(* constraint-propagated list reordered, and in it no pattern without a   *)
(* constraint on either position precedes a pattern that carries a        *)
(* self-contained constraint.                                             *)
Unconstrained(pattern) ==
  \A t \in {pattern.s, pattern.o} : isVar(t) => t.where = None

SelfConstrained(pattern) ==
  \E t \in {pattern.s, pattern.o} :
    isVar(t) /\ t.where # None /\ \A k \in 1..Len(t.where) : t.where[k].ref = ""

Reordering(a, b) ==
  /\ Len(a) = Len(b)
  /\ \A x \in SeqToSet(a) \cup SeqToSet(b) :
       Cardinality({i \in 1..Len(a) : a[i] = x}) = Cardinality({i \in 1..Len(b) : b[i] = x})

C18_ExecutionPlanning ==
  last.kind = "optimize" =>
    /\ Reordering(last.out, propagate_constraints(last.q))
    /\ \A i, j \in 1..Len(last.out) :
         i < j => ~(Unconstrained(last.out[i]) /\ SelfConstrained(last.out[j]))

(* C19: store idempotence.  A call of store_facts with facts of storable  *)
(* types raises nothing and leaves in the store the rows it held before   *)
(* and the facts of the call, each once: a fact that was stored already,  *)
(* or that the call names twice, adds no row and changes no other row.    *)
C19_StoreIdempotence ==
  (last.kind = "store" /\ \A i \in 1..Len(last.q) : ~_is_inferred(last.q[i].type))
    => /\ ~last.err
       /\ store = SeqToSet(last.before) \cup SeqToSet(last.q)
       /\ SeqToSet(last.q) \subseteq SeqToSet(last.before) => store = SeqToSet(last.before)

(* C19 witness: a call named twice a fact that was stored already, next to *)
(* another row, and the store is as it was.                                *)
C19_Witness ==
  /\ last.kind = "store"
  /\ last.q = <<Fact("ParentOf", 1, 2), Fact("ParentOf", 1, 2)>>
  /\ ~last.err
  /\ store = {Fact("ParentOf", 1, 2), Fact("WorksOn", 1, 1)}
  /\ SeqToSet(last.before) = store

(* C20: retraction round trip for any store.  store_facts(f) followed at  *)
(* once by retract_facts(f) leaves the store as it was before both calls, *)
(* whatever it held.                                                      *)
C20_RetractionRoundTrip ==
  [][(/\ last.kind = "store" /\ ~last.err /\ Len(last.q) = 1
      /\ last'.kind = "retract" /\ last'.q = last.q)
       => store' = SeqToSet(last.before)]_vars

(* C20 amended: store_facts(f) followed at once by retract_facts(f)       *)
(* raises nothing and leaves the store without f and with every other row *)
(* unchanged; that is the store as it was before both calls when f was    *)
(* not stored before them.                                                *)
C20_RoundTripWhenAbsent ==
  [][(/\ last.kind = "store" /\ ~last.err /\ Len(last.q) = 1
      /\ last'.kind = "retract" /\ last'.q = last.q)
       => /\ ~last'.err
          /\ store' = SeqToSet(last.before) \ {last.q[1]}
          /\ last.q[1] \notin SeqToSet(last.before) => store' = SeqToSet(last.before)]_vars

(* C20 witness: ParentOf(1, 2) was retracted from a store that held it    *)
(* next to another row, and the other row is what is left.                *)
C20_Witness ==
  /\ last.kind = "retract"
  /\ last.q = <<Fact("ParentOf", 1, 2)>>
  /\ ~last.err
  /\ SeqToSet(last.before) = {Fact("ParentOf", 1, 1), Fact("ParentOf", 1, 2)}
  /\ store = {Fact("ParentOf", 1, 1)}

(* C21: unsatisfiable queries are empty, not errors.  A query with no     *)
(* satisfying assignment over the stored and derivable facts raises       *)
(* nothing and yields nothing, whatever the bodies of the registered      *)
(* rules.                                                                 *)
C21_UnsatisfiableIsEmpty ==
  (last.kind = "query" /\ Answers(last.q, Derivable) = {}) =>
    ~last.err /\ last.out = <<>>

(* C22: hydration.  With hydrate=True query yields, for each key-only     *)
(* binding set and in the same order, one binding set with the same       *)
(* variable names, in which each key is replaced by the entity of the     *)
(* variable's declared type (the type of its first occurrence in the      *)
(* patterns) that has that key, or is left as the raw key when no entity  *)
(* has it; with hydrate=False the key-only binding sets are yielded       *)
(* unchanged and no lookup is made.                                       *)
DeclaredType(n, q) ==
  LET occ == {<<i, f>> \in (1..Len(q)) \X {"subject", "object"} :
                LET t == IF f = "subject" THEN q[i].s ELSE q[i].o
                IN  isVar(t) /\ t.name = n}
      first == CHOOSE x \in occ :
                 \A y \in occ : x[1] < y[1] \/ (x[1] = y[1] /\ (x[2] = "subject" \/ y[2] = "object"))
  IN  _extract_model_type_from_annotation(q[first[1]].type, first[2])

CrossLookups(term) ==
  IF isVar(term) THEN {term.where[k] : k \in {j \in 1..Len(term.where) : term.where[j].ref # ""}}
  ELSE {}

KeepsCross(given, returned) ==
  (isVar(given) /\ given.where # None /\ has_variable_references(given.where))
    => CrossLookups(given) \subseteq CrossLookups(returned)

C23_CrossVariableSurvives ==
  last.kind = "propagate" =>
    \A i \in 1..Len(last.q) :
      /\ KeepsCross(last.q[i].s, last.out[i].s)
      /\ KeepsCross(last.q[i].o, last.out[i].o)
      /\ CrossLookups(last.out[i].s) \subseteq CrossLookups(last.q[i].s)
      /\ CrossLookups(last.out[i].o) \subseteq CrossLookups(last.q[i].o)

(* C24: hidden-variable targeting is transparent.  For the pattern of a   *)
(* query and the registered rules, the facts of the type of the pattern   *)
(* that the rule engine infers from the targeted fact base, together with *)
(* the stored facts of that type, are the facts of that type that the     *)
(* rule engine infers from all stored facts with all registered rules;    *)
(* and building the targeted fact base raises nothing.                    *)
OfType(facts, t) == {f \in SeqToSet(facts) : f.type = t}

Transparent(target_pattern) ==
  LET rows == SortedRows(store)
      relevant_rules == SelectSeq(_rules, LAMBDA r : r.head.type = target_pattern.type)
      targeted == _apply_rules_with_hidden_variables(relevant_rules, target_pattern, rows)
  IN  relevant_rules # <<>> =>
        /\ ~targeted.err
        /\ SeqToSet(targeted.facts) \cup OfType(rows, target_pattern.type)
             = OfType(apply_rules(_rules, rows), target_pattern.type)

C24_TargetingTransparent ==
  last.kind = "query" => \A j \in 1..Len(last.q) : Transparent(last.q[j])

(* C25: constraints in rule bodies restrict derivation.  A head fact is   *)
(* derived only from body matches in which every predicate attached to a  *)
(* body variable holds for the entity bound to it, so a query on a head   *)
(* type yields only assignments whose fact is derivable that way.         *)
BodyWheresHold(c, asg) ==
  \A p \in CondPatterns(c) : WhereHolds(p.s, asg) /\ WhereHolds(p.o, asg)

ConstrainedConsequences(r, F) ==
  {Inst(r.head, asg) : asg \in {a \in [RuleNames(r) -> Ent] :
                                  \A i \in 1..Len(r.body) :
                                    CondHolds(r.body[i], a, F) /\ BodyWheresHold(r.body[i], a)}}

RECURSIVE ConstrainedClosure(_, _)
ConstrainedClosure(F, rules) ==
  LET G == F \cup UNION {ConstrainedConsequences(r, F) : r \in rules}
  IN  IF G = F THEN F ELSE ConstrainedClosure(G, rules)

C26_StoreErrorAborts ==
  last.kind = "query_store_down" => last.err

(* C27: ORM shortcut equivalence.  For a conjunction of stored-fact        *)
(* patterns queried with no initial bindings, whenever the automatic       *)
(* conversion produces the results (it does not raise), the set of the     *)
(* binding sets yielded equals the set that the recursive solver yields    *)
(* for the same store and patterns.  Whether the conversion raises does    *)
(* not depend on the order of the rows, and neither does the solver's set. *)
StoredOnly(q) == \A j \in 1..Len(q) : ~_is_inferred(q[j].type)

ConversionProduces(q, rows) ==
  ~_try_automatic_orm_conversion(optimize_query(q), rows).raised

C27_ShortcutEquivalence ==
  (/\ last.kind = "query"
   /\ StoredOnly(last.q)
   /\ ConversionProduces(last.q, SortedRows(store)))
    => Returned = SeqToSet(solver(optimize_query(last.q), _rules, SortedRows(store)).out)

(* C28: overlapping scopes.  When scopes overlap without being nested,    *)
(* after all of them have exited no rule registered inside a scope is in   *)
(* the registry, and the exit of a scope does not remove a rule that was   *)
(* registered outside every scope while a scope was active.                *)
C28_OverlappingScopes ==
  /\ [](scopes = <<>> => SeqToSet(_rules) \cap (ScopeRules \cup {HeadOnly}) = {})
  /\ [][Len(scopes') < Len(scopes) =>
          SeqToSet(_rules) \cap OutsideRules \subseteq SeqToSet(_rules')]_vars

(* C29: variable renaming invariance.  Renaming the variables of a query   *)
(* consistently, to names that the registered rules use or do not use,     *)
(* yields the same solution set up to that renaming: the renamed query     *)
(* raises exactly when the query raised, and yields the renamed binding    *)
(* sets of the query.                                                      *)
NewNames == {"emp", "company", "grandparent", "grandchild", "target"}

Renamings(q) ==
  {ren \in [QueryNames(q) -> NewNames] : \A a, b \in QueryNames(q) : ren[a] = ren[b] => a = b}

RenameWhere(w, ren) ==
  [i \in 1..Len(w) |->
     [f |-> w[i].f, ref |-> IF w[i].ref \in DOMAIN ren THEN ren[w[i].ref] ELSE w[i].ref]]

RenameTerm(term, ren) ==
  IF isVar(term) THEN Var(ren[term.name], RenameWhere(term.where, ren)) ELSE term

Rename(q, ren) ==
  [j \in 1..Len(q) |-> Pat(q[j].type, RenameTerm(q[j].s, ren), RenameTerm(q[j].o, ren))]

RenameBindings(b, ren) ==
  [n \in {ren[m] : m \in DOMAIN b \cap DOMAIN ren} |->
     b[CHOOSE m \in DOMAIN b \cap DOMAIN ren : ren[m] = n]]

====
